---- MODULE Spec2Model ----
(***************************************************************************)
(* Session state machine of the number-guessing game client                *)
(* (src/client.py): GameClient.run / play_game / ask_retry / connect /     *)
(* disconnect / send / receive_json, the SIGINT handler and main().        *)
(*                                                                         *)
(* One action per blocking step of the single thread of control.  The     *)
(* environment (server frames, socket failures, user input, SIGINT) is    *)
(* chosen with \E from small sets.  One receive buffer is one frame.      *)
(***************************************************************************)
EXTENDS Integers, Sequences, FiniteSets, TLC

VARIABLES
    pc,            \* position of the thread of control
    socket,        \* self.socket: 0 is None, n > 0 is the n-th socket created
    connected,     \* self.connected
    player_name,   \* self.player_name
    line,          \* local `name` / `guess` / `choice`: the text just typed
    opened,        \* handles created and not yet closed (OS view)
    created,       \* number of sockets created so far
    attempts,      \* number of calls of connect() so far
    at,            \* position at which the last step ran
    rx,            \* outcome of the last step's receive_json call (NoRx if none)
    tx,            \* text the last step put on the wire (NoLine if none)
    events,        \* render events printed by the last step, in order
    interrupted,   \* a SIGINT has been delivered
    ioAfterInt,    \* a receive, send or input prompt started after a SIGINT
    firstOut,      \* first text sent on the current transport (NoLine if none)
    lastAccepted,  \* name carried by the most recent name_accepted frame
    guessesInRound,\* guesses sent in the round in progress
    rxInRound,     \* frames received in the round in progress (stops at MaxGuesses)
    inflight,      \* guesses sent in the round whose reply has not been consumed
    exitCause      \* how run() was left: running / normal / exception / interrupt

vars == <<pc, socket, connected, player_name, line, opened, created, attempts,
          at, rx, tx, events, interrupted, ioAfterInt, firstOut, lastAccepted,
          guessesInRound, rxInRound, inflight, exitCause>>

----------------------------------------------------------------------------
(* Bounds *)

MaxConnects == 2      \* connect() calls per session (1 initial + reconnects)
MaxGuesses == 2       \* guesses sent per round
MaxAttempts == 2      \* range of the attempts field of a hint

----------------------------------------------------------------------------
(* Data *)

NoLine == "<none>"

Names == {"alice", "bob"}

Directions == {"grand", "petit", "too_high", "too_low"}

\* What the user can type at a prompt (before .strip()).
TypedNames == {"alice", " "}
TypedGuesses == {"50", " ", ""}
TypedChoices == {"o", "OUI", "y", "yes", "n", ""}

Strip_none(s) == s

\* str.strip() on the inputs above.
Strip(s) == IF s = " " THEN "" ELSE s

\* str.lower() on the inputs above.
Lower(s) == IF s = "OUI" THEN "oui" ELSE s

\* prompt(): input(...).strip()
prompt(typed) == Strip(typed)

\* A JSON value as returned by json.loads, seen through the keys the client
\* reads.  k: "dict", "falsy" ({} , 0, null, ...), "nondict" (truthy list,
\* number or string).  type "notype" is a dict without a 'type' key, type
\* "other" any type string the client has no branch for.  ok: the keys the
\* branch for this type reads are all present.
Val(k, t, o, n, d, a) ==
    [k |-> k, type |-> t, ok |-> o, name |-> n, direction |-> d, attempts |-> a]

None == Val("None", "", FALSE, "", "", 0)
Falsy == Val("falsy", "", FALSE, "", "", 0)
NonDict == Val("nondict", "", FALSE, "", "", 0)

PlainTypes == {"stats", "leaderboard", "prompt", "game_start", "victory",
               "error", "bye"}

Frames ==
    {Val("dict", t, o, "", "", 0) : t \in PlainTypes, o \in BOOLEAN}
    \cup {Val("dict", t, TRUE, "", "", 0) : t \in {"other", "notype"}}
    \cup {Val("dict", "name_accepted", TRUE, n, "", 0) : n \in Names}
    \cup {Val("dict", "name_accepted", FALSE, "", "", 0)}
    \cup {Val("dict", "hint", TRUE, "", d, a) : d \in Directions, a \in 1..MaxAttempts}
    \cup {Val("dict", "hint", FALSE, "", "", 0)}

\* Outcomes of the body of receive_json: the five ways of returning None
\* and the decoded payloads.
Failures == {"timeout", "closed", "ioerror", "undecodable", "interrupt"}
RecvOutcomes ==
    {[cause |-> c, json |-> None] : c \in Failures}
    \cup {[cause |-> "data", json |-> j] : j \in Frames \cup {Falsy, NonDict}}

\* The step made no receive_json call.
NoRx == [cause |-> "norecv", json |-> None]

\* receive_json(): every exception, SystemExit included, becomes None.
receive_json(o) == IF o.cause \in Failures THEN None ELSE o.json

\* Python truthiness of what receive_json returned: `if not data`.
Truthy(d) == d.k \in {"dict", "nondict"}

\* data.get('type') raises AttributeError on a value that is not a dict.
GetRaises(d) == d.k = "nondict"

\* Render events.
Ev(e) == [ev |-> e, n |-> 0]
EvN(e, n) == [ev |-> e, n |-> n]

HintFeedback_byName(direction, n) ==
    IF direction \in {"grand", "too_high"} THEN EvN("HintTooHigh", n)
    ELSE EvN("HintTooLow", n)

\* Lines 350-353: the feedback printed for a hint.
HintFeedback(direction, n) ==
    IF direction = "grand" THEN EvN("HintTooHigh", n) ELSE EvN("HintTooLow", n)

ask_retry_substring(typed) == Lower(prompt(typed)) \in {"o", "oui", "ou", "ui", "u", "i", ""}

\* ask_retry(): choice in ['o', 'oui', 'y', 'yes'] after lower().
ask_retry(typed) == Lower(prompt(typed)) \in {"o", "oui", "y", "yes"}

----------------------------------------------------------------------------
(* Initial state: after GameClient.__init__, before run(). *)

Init ==
    /\ pc = "connect"
    /\ socket = 0
    /\ connected = FALSE
    /\ player_name = ""
    /\ line = NoLine
    /\ opened = {}
    /\ created = 0
    /\ attempts = 0
    /\ at = "init"
    /\ rx = NoRx
    /\ tx = NoLine
    /\ events = <<>>
    /\ interrupted = FALSE
    /\ ioAfterInt = FALSE
    /\ firstOut = NoLine
    /\ lastAccepted = ""
    /\ guessesInRound = 0
    /\ rxInRound = 0
    /\ inflight = 0
    /\ exitCause = "running"

----------------------------------------------------------------------------
(* Handlers as functions of the received value.  A result names the next  *)
(* position, the render events printed on the way and how run() is left.  *)

R(next, evs, exit) == [next |-> next, events |-> evs, exit |-> exit]

Raise_crash(evs) == R("done", evs \o <<Ev("TopError")>>, "exception")

\* An exception other than SystemExit reaches main()'s `except Exception`,
\* which prints it; then the `finally` clause runs.
Raise(evs) == R("finally", evs \o <<Ev("TopError")>>, "exception")

\* play_game returns False (or run() returns): run() ends, `finally` runs.
Return(evs) == R("finally", evs, "normal")

\* SystemExit raised by signal_handler outside send/receive_json/disconnect.
Exit(evs) == R("finally", evs \o <<Ev("Interruption")>>, "interrupt")

Stay(next, evs) == R(next, evs, "running")

\* Lines 296-393: the outer message loop's reaction to `data`.
OnMessage(data) ==
    IF ~Truthy(data) THEN Return(<<Ev("ConnectionLost")>>)
    ELSE IF GetRaises(data) THEN Raise(<<>>)
    ELSE IF data.type = "stats" THEN
        (IF data.ok THEN Stay("recvTop", <<Ev("StatsPanel")>>) ELSE Raise(<<>>))
    ELSE IF data.type = "leaderboard" THEN
        (IF data.ok THEN Stay("recvTop", <<Ev("LeaderboardPanel")>>) ELSE Raise(<<>>))
    ELSE IF data.type = "prompt" THEN
        (IF data.ok THEN Stay("namePrompt", <<Ev("NamePrompt")>>) ELSE Raise(<<>>))
    ELSE IF data.type = "name_accepted" THEN
        (IF data.ok THEN Stay("recvTop", <<Ev("NameWelcome")>>) ELSE Raise(<<>>))
    ELSE IF data.type = "game_start" THEN
        (IF data.ok THEN Stay("guessPrompt", <<Ev("RoundStart")>>) ELSE Raise(<<>>))
    ELSE IF data.type = "error" THEN
        (IF data.ok THEN Return(<<Ev("ErrorNotice")>>) ELSE Raise(<<>>))
    ELSE Stay("recvTop", <<>>)

StoreName_first(data, old) ==
    IF Truthy(data) /\ ~GetRaises(data) /\ data.type = "name_accepted" /\ data.ok
       /\ old = ""
    THEN data.name ELSE old

StoreName_reset(data, old) ==
    IF Truthy(data) /\ ~GetRaises(data) /\ data.type = "name_accepted" /\ data.ok
    THEN data.name ELSE ""

\* Line 318: only a name_accepted frame assigns self.player_name.
StoreName(data, old) ==
    IF Truthy(data) /\ ~GetRaises(data) /\ data.type = "name_accepted" /\ data.ok
    THEN data.name ELSE old

OnNoResponse_continue == Stay("guessPrompt", <<>>)

\* Lines 340-341: no response, the attempt loop is left with `break` and
\* control is back at the top of the outer loop.
OnNoResponse == Stay("recvTop", <<>>)

\* Lines 346-353: a hint.
OnHint(response) ==
    IF response.ok
    THEN Stay("guessPrompt", <<HintFeedback(response.direction, response.attempts)>>)
    ELSE Raise(<<>>)

\* Lines 356-370: a victory, up to the courtesy fetch.  `sigint` is a SIGINT
\* delivered during the sleeps of lines 143 and 370.
OnVictory(response, sigint) ==
    IF sigint THEN Exit(<<Ev("Celebrate")>>)
    ELSE IF response.ok THEN Stay("lbFetch", <<Ev("Celebrate"), Ev("VictoryBox")>>)
    ELSE Raise(<<Ev("Celebrate")>>)

\* Lines 378-379: stats inside a round.
OnStatsReply(response) ==
    IF response.ok THEN Stay("guessPrompt", <<Ev("StatsPanel")>>) ELSE Raise(<<>>)

OnErrorReply_lost(response) ==
    IF response.ok THEN Return(<<Ev("ErrorNotice"), Ev("ConnectionLost")>>)
    ELSE Raise(<<>>)

OnErrorReply_fatal(response) ==
    IF response.ok THEN Return(<<Ev("ErrorNotice")>>) ELSE Raise(<<>>)

\* Lines 382-383: an error inside a round.
OnErrorReply(response) ==
    IF response.ok THEN Stay("guessPrompt", <<Ev("ErrorNotice")>>) ELSE Raise(<<>>)

\* Lines 386-388: bye inside a round.
OnByeReply(response) ==
    IF response.ok THEN Return(<<Ev("ByeFarewell")>>) ELSE Raise(<<>>)

\* Lines 340-388: the attempt loop's reaction to `response`.
OnResponse(response, sigint) ==
    IF ~Truthy(response) THEN OnNoResponse
    ELSE IF GetRaises(response) THEN Raise(<<>>)
    ELSE IF response.type = "hint" THEN OnHint(response)
    ELSE IF response.type = "victory" THEN OnVictory(response, sigint)
    ELSE IF response.type = "stats" THEN OnStatsReply(response)
    ELSE IF response.type = "error" THEN OnErrorReply(response)
    ELSE IF response.type = "bye" THEN OnByeReply(response)
    ELSE Stay("guessPrompt", <<>>)

OnLeaderboard_fatal(lb_data) ==
    IF ~Truthy(lb_data) THEN Return(<<Ev("ConnectionLost")>>)
    ELSE IF GetRaises(lb_data) THEN Raise(<<>>)
    ELSE IF lb_data.type = "leaderboard" THEN
        (IF lb_data.ok
         THEN Stay("askRetry", <<Ev("LeaderboardPanel"), Ev("RetryPrompt")>>)
         ELSE Raise(<<>>))
    ELSE Stay("askRetry", <<Ev("RetryPrompt")>>)

\* Lines 371-375 and 397: the courtesy fetch after a victory, then the
\* question printed by ask_retry.
OnLeaderboard(lb_data) ==
    IF Truthy(lb_data) /\ GetRaises(lb_data) THEN Raise(<<>>)
    ELSE IF Truthy(lb_data) /\ lb_data.type = "leaderboard" THEN
        (IF lb_data.ok
         THEN Stay("askRetry", <<Ev("LeaderboardPanel"), Ev("RetryPrompt")>>)
         ELSE Raise(<<>>))
    ELSE Stay("askRetry", <<Ev("RetryPrompt")>>)

\* The frames that answer a guess: the hint, error and victory branches of
\* lines 346, 356 and 382.
IsGuessReply(response) ==
    Truthy(response) /\ ~GetRaises(response)
    /\ response.type \in {"hint", "error", "victory"}

\* signal_handler prints before it raises SystemExit, also when the
\* SystemExit is then swallowed by a bare `except:`.
Handler(o) == IF o = "interrupt" THEN <<Ev("Interruption")>> ELSE <<>>

----------------------------------------------------------------------------
(* Pieces of state update shared by the actions *)

Apply(r, pre) ==
    /\ pc' = r.next
    /\ events' = pre \o r.events
    /\ exitCause' = r.exit

\* A receive, a send or an input prompt is performed now; `sig` tells
\* whether a SIGINT is delivered during it.
Io(sig) ==
    /\ ioAfterInt' = (ioAfterInt \/ interrupted)
    /\ interrupted' = (interrupted \/ sig)

disconnect_leak ==
    /\ connected' = FALSE
    /\ UNCHANGED <<socket, opened>>

\* disconnect(): close self.socket if there is one, errors ignored;
\* self.connected = False.  Closing a closed socket does nothing.
disconnect ==
    /\ opened' = opened \ {socket}
    /\ connected' = FALSE
    /\ UNCHANGED socket

\* send(): sendall of the text plus a newline; every exception, SystemExit
\* included, becomes False, which no caller looks at.
SendOutcomes == {"ok", "fail", "interrupt"}
send(message, o) ==
    /\ tx' = IF o = "ok" THEN message ELSE NoLine
    /\ firstOut' = IF o = "ok" /\ firstOut = NoLine THEN message ELSE firstOut
    /\ Io(o = "interrupt")

\* What input() can do: return text, raise EOFError, or be interrupted.
InputKinds == {"text", "eof", "interrupt"}

----------------------------------------------------------------------------
(* Actions *)

\* connect(), lines 163-175, called at line 410 and at line 423.
ConnectOutcomes == {"ok", "no_socket", "refused", "int_spinner", "int_connect"}
Connect ==
    /\ pc \in {"connect", "reconnect"}
    /\ \E o \in ConnectOutcomes :
        LET makes == o \in {"ok", "refused", "int_connect"}
            pre == IF pc = "connect" THEN <<Ev("Welcome")>> ELSE <<>>
        IN
        /\ attempts' = attempts + 1
        /\ created' = IF makes THEN created + 1 ELSE created
        /\ socket' = IF makes THEN created + 1 ELSE socket
        /\ opened' = IF makes THEN opened \cup {created + 1} ELSE opened
        /\ connected' = IF o = "ok" THEN TRUE ELSE connected
        /\ firstOut' = IF makes THEN NoLine ELSE firstOut
        /\ interrupted' = (interrupted \/ o \in {"int_spinner", "int_connect"})
        /\ Apply(IF o = "ok"
                 THEN Stay(IF pc = "connect" THEN "recvTop" ELSE "drain1", <<Ev("ConnOk")>>)
                 ELSE IF o \in {"no_socket", "refused"} THEN Return(<<Ev("ConnErr")>>)
                 ELSE Exit(<<>>), pre)
    /\ at' = pc
    /\ rx' = NoRx
    /\ tx' = NoLine
    /\ UNCHANGED <<player_name, line, ioAfterInt, lastAccepted, guessesInRound, rxInRound, inflight>>

\* Lines 293-329 and 390-393: one turn of the outer loop of play_game.  With
\* self.connected false the loop is not entered and play_game returns None.
Receive ==
    /\ pc = "recvTop"
    /\ IF connected
       THEN \E o \in RecvOutcomes :
            LET data == receive_json(o) IN
            /\ Apply(OnMessage(data), Handler(o.cause))
            /\ player_name' = StoreName(data, player_name)
            /\ lastAccepted' = IF o.json.type = "name_accepted" /\ o.json.ok
                               THEN o.json.name ELSE lastAccepted
            /\ rx' = o
            /\ Io(o.cause = "interrupt")
            /\ guessesInRound' = IF OnMessage(data).next = "guessPrompt" THEN 0 ELSE guessesInRound
            /\ rxInRound' = IF OnMessage(data).next = "guessPrompt" THEN 0 ELSE rxInRound
            /\ inflight' = IF OnMessage(data).next = "guessPrompt" THEN 0 ELSE inflight
       ELSE /\ Apply(Return(<<>>), <<>>)
            /\ rx' = NoRx
            /\ UNCHANGED <<player_name, lastAccepted, interrupted, ioAfterInt,
                           guessesInRound, rxInRound, inflight>>
    /\ at' = pc
    /\ tx' = NoLine
    /\ UNCHANGED <<socket, connected, opened, created, attempts, line, firstOut>>

\* Line 313: name = prompt("").
NamePrompt ==
    /\ pc = "namePrompt"
    /\ \E k \in InputKinds, typed \in TypedNames :
        /\ k # "text" => typed = "alice"
        /\ Apply(IF k = "text" THEN Stay("sendTyped", <<>>)
                 ELSE IF k = "eof" THEN Raise(<<>>) ELSE Exit(<<>>), <<>>)
        /\ line' = IF k = "text" THEN prompt(typed) ELSE line
        /\ Io(k = "interrupt")
    /\ at' = pc
    /\ rx' = NoRx
    /\ tx' = NoLine
    /\ UNCHANGED <<socket, connected, opened, created, attempts, player_name,
                   firstOut, lastAccepted, guessesInRound, rxInRound, inflight>>

\* Line 314: self.send(name).
SendTyped ==
    /\ pc = "sendTyped"
    /\ \E o \in SendOutcomes :
        /\ send(line, o)
        /\ Apply(Stay("recvTop", <<>>), Handler(o))
    /\ at' = pc
    /\ rx' = NoRx
    /\ line' = NoLine
    /\ UNCHANGED <<socket, connected, opened, created, attempts, player_name,
                   lastAccepted, guessesInRound, rxInRound, inflight>>

\* Lines 333-335: guess = prompt("Votre nombre "); an empty guess is asked again.
GuessPrompt ==
    /\ pc = "guessPrompt"
    /\ \E k \in InputKinds, typed \in TypedGuesses :
        /\ k # "text" => typed = "50"
        /\ (k = "text" /\ prompt(typed) # "") => guessesInRound < MaxGuesses
        /\ Apply(IF k = "text"
                 THEN Stay(IF prompt(typed) = "" THEN "guessPrompt" ELSE "sendGuess", <<>>)
                 ELSE IF k = "eof" THEN Raise(<<>>) ELSE Exit(<<>>), <<>>)
        /\ line' = IF k = "text" THEN prompt(typed) ELSE line
        /\ Io(k = "interrupt")
    /\ at' = pc
    /\ rx' = NoRx
    /\ tx' = NoLine
    /\ UNCHANGED <<socket, connected, opened, created, attempts, player_name,
                   firstOut, lastAccepted, guessesInRound, rxInRound, inflight>>

\* Line 337: self.send(guess).
SendGuess ==
    /\ pc = "sendGuess"
    /\ \E o \in SendOutcomes :
        /\ send(line, o)
        /\ guessesInRound' = IF o = "ok" THEN guessesInRound + 1 ELSE guessesInRound
        /\ inflight' = IF o = "ok" THEN inflight + 1 ELSE inflight
        /\ Apply(Stay("recvReply", <<>>), Handler(o))
    /\ at' = pc
    /\ rx' = NoRx
    /\ line' = NoLine
    /\ UNCHANGED <<socket, connected, opened, created, attempts, player_name,
                   lastAccepted, rxInRound>>

\* Lines 338-388: response = self.receive_json() and its dispatch.
ReceiveResponse ==
    /\ pc = "recvReply"
    /\ \E o \in RecvOutcomes, sigint \in BOOLEAN :
        LET response == receive_json(o) IN
        /\ sigint => (o.cause = "data" /\ o.json.type = "victory" /\ o.json.ok)
        /\ Apply(OnResponse(response, sigint), Handler(o.cause))
        /\ rx' = o
        /\ ioAfterInt' = (ioAfterInt \/ interrupted)
        /\ interrupted' = (interrupted \/ sigint \/ o.cause = "interrupt")
        /\ rxInRound' =
            IF OnResponse(response, sigint).next \in {"recvTop", "lbFetch"} THEN 0
            ELSE IF o.cause = "data" /\ rxInRound < MaxGuesses THEN rxInRound + 1
            ELSE rxInRound
        /\ guessesInRound' =
            IF OnResponse(response, sigint).next \in {"recvTop", "lbFetch"} THEN 0
            ELSE guessesInRound
        /\ inflight' =
            IF OnResponse(response, sigint).next \in {"recvTop", "lbFetch"} THEN 0
            ELSE IF IsGuessReply(response) /\ inflight > 0 THEN inflight - 1
            ELSE inflight
    /\ at' = pc
    /\ tx' = NoLine
    /\ UNCHANGED <<socket, connected, opened, created, attempts, player_name, line,
                   firstOut, lastAccepted>>

\* Lines 371-375, 397: lb_data = self.receive_json(timeout=3.0).
FetchLeaderboard ==
    /\ pc = "lbFetch"
    /\ \E o \in RecvOutcomes :
        /\ Apply(OnLeaderboard(receive_json(o)), Handler(o.cause))
        /\ rx' = o
        /\ Io(o.cause = "interrupt")
    /\ at' = pc
    /\ tx' = NoLine
    /\ UNCHANGED <<socket, connected, opened, created, attempts, player_name, line,
                   firstOut, lastAccepted, guessesInRound, rxInRound, inflight>>

\* Lines 398-399 and 414-416: the answer to "play again?".
AskRetry ==
    /\ pc = "askRetry"
    /\ \E k \in InputKinds, typed \in TypedChoices :
        /\ k # "text" => typed = "n"
        /\ (k = "text" /\ ask_retry(typed)) => attempts < MaxConnects
        /\ Apply(IF k = "text"
                 THEN (IF ask_retry(typed) THEN Stay("disconnect", <<>>) ELSE Return(<<>>))
                 ELSE IF k = "eof" THEN Raise(<<>>) ELSE Exit(<<>>), <<>>)
        /\ line' = IF k = "text" THEN Lower(prompt(typed)) ELSE line
        /\ Io(k = "interrupt")
    /\ at' = pc
    /\ rx' = NoRx
    /\ tx' = NoLine
    /\ UNCHANGED <<socket, connected, opened, created, attempts, player_name,
                   firstOut, lastAccepted, guessesInRound, rxInRound, inflight>>

Reconnect_noClose ==
    /\ pc = "disconnect"
    /\ \E sigint \in BOOLEAN :
        /\ Apply(IF sigint THEN Exit(<<>>) ELSE Stay("reconnect", <<>>),
                 <<Ev("Reconnecting")>>)
        /\ interrupted' = (interrupted \/ sigint)
    /\ at' = pc
    /\ rx' = NoRx
    /\ tx' = NoLine
    /\ line' = NoLine
    /\ UNCHANGED <<socket, opened, connected, created, attempts, player_name,
                   ioAfterInt, firstOut, lastAccepted, guessesInRound, rxInRound,
                   inflight>>

\* Lines 419-421: announce, disconnect(), sleep one second.
Reconnect ==
    /\ pc = "disconnect"
    /\ disconnect
    /\ \E sigint \in BOOLEAN :
        /\ Apply(IF sigint THEN Exit(<<>>) ELSE Stay("reconnect", <<>>),
                 <<Ev("Reconnecting")>>)
        /\ interrupted' = (interrupted \/ sigint)
    /\ at' = pc
    /\ rx' = NoRx
    /\ tx' = NoLine
    /\ line' = NoLine
    /\ UNCHANGED <<created, attempts, player_name, ioAfterInt, firstOut,
                   lastAccepted, guessesInRound, rxInRound, inflight>>

\* Lines 427-428: two receives whose results are dropped.
Drain ==
    /\ pc \in {"drain1", "drain2"}
    /\ \E o \in RecvOutcomes :
        /\ Apply(Stay(IF pc = "drain1" THEN "drain2" ELSE "sendName", <<>>),
                 Handler(o.cause))
        /\ rx' = o
        /\ Io(o.cause = "interrupt")
    /\ at' = pc
    /\ tx' = NoLine
    /\ UNCHANGED <<socket, connected, opened, created, attempts, player_name, line,
                   firstOut, lastAccepted, guessesInRound, rxInRound, inflight>>

\* Line 431: self.send(self.player_name).
SendName ==
    /\ pc = "sendName"
    /\ \E o \in SendOutcomes :
        /\ send(player_name, o)
        /\ Apply(Stay("recvTop", <<>>), Handler(o))
    /\ at' = pc
    /\ rx' = NoRx
    /\ UNCHANGED <<socket, connected, opened, created, attempts, player_name, line,
                   lastAccepted, guessesInRound, rxInRound, inflight>>

\* Lines 469-471: main()'s finally clause: disconnect(), then the farewell.
Finally ==
    /\ pc = "finally"
    /\ disconnect
    /\ pc' = "done"
    /\ events' = <<Ev("Farewell")>>
    /\ at' = pc
    /\ rx' = NoRx
    /\ tx' = NoLine
    /\ UNCHANGED <<created, attempts, player_name, line, interrupted, ioAfterInt,
                   firstOut, lastAccepted, guessesInRound, rxInRound, exitCause, inflight>>

Next ==
    \/ Connect
    \/ Receive
    \/ NamePrompt
    \/ SendTyped
    \/ GuessPrompt
    \/ SendGuess
    \/ ReceiveResponse
    \/ FetchLeaderboard
    \/ AskRetry
    \/ Reconnect
    \/ Drain
    \/ SendName
    \/ Finally

Spec == Init /\ [][Next]_vars

\* Every step ends: a receive is bounded by the timeout set at line 189, a
\* connect and a send by CONNECTION_TIMEOUT (line 168), the sleeps are
\* finite, and the user is assumed to answer every input prompt.
LiveSpec == Init /\ [][Next]_vars /\ WF_vars(Next)

----------------------------------------------------------------------------
(* The phases of the session of the specification, by position. *)

Phase ==
    CASE pc = "connect" -> "Connecting"
      [] pc \in {"recvTop", "namePrompt", "sendTyped"} -> "AwaitingName"
      [] pc \in {"guessPrompt", "sendGuess", "recvReply", "lbFetch"} -> "InRound"
      [] pc = "askRetry" -> "AwaitingRetryDecision"
      [] pc \in {"disconnect", "reconnect", "drain1", "drain2", "sendName"} -> "Reconnecting"
      [] pc \in {"finally", "done"} -> "Terminated"

TypeOK ==
    /\ pc \in {"connect", "recvTop", "namePrompt", "sendTyped", "guessPrompt",
               "sendGuess", "recvReply", "lbFetch", "askRetry", "disconnect",
               "reconnect", "drain1", "drain2", "sendName", "finally", "done"}
    /\ socket \in 0..MaxConnects
    /\ connected \in BOOLEAN
    /\ player_name \in Names \cup {""}
    /\ opened \subseteq 1..MaxConnects
    /\ guessesInRound \in 0..MaxGuesses
    /\ inflight \in 0..MaxGuesses
    /\ exitCause \in {"running", "normal", "exception", "interrupt"}

----------------------------------------------------------------------------
(* Claims *)

\* C1: a well-formed victory reply leads to the courtesy fetch, and the
\* fetch leads to the replay question (AwaitingRetryDecision) whether it
\* yields a leaderboard frame, a frame of another type, a timeout, a remote
\* close, an I/O error or an undecodable frame.
C1_VictoryThenRetryDecision ==
    /\ (at = "recvReply" /\ rx.cause = "data" /\ rx.json.type = "victory"
            /\ rx.json.ok /\ exitCause # "interrupt")
        => pc = "lbFetch"
    /\ (at = "lbFetch" /\ rx.json.k # "nondict"
            /\ ~(rx.json.type = "leaderboard" /\ ~rx.json.ok))
        => (pc = "askRetry" /\ Phase = "AwaitingRetryDecision"
            /\ exitCause = "running")

C1_Witness ==
    at = "lbFetch" /\ rx.cause = "timeout" /\ pc = "askRetry"

\* C2: an error frame received as the reply to a guess leaves the session in
\* the round, about to prompt for another guess, with player_name, the
\* socket, its open state and the connected flag unchanged and nothing sent.
C2_ErrorKeepsRound ==
    [][(pc = "recvReply" /\ rx'.cause = "data" /\ rx'.json.type = "error"
            /\ rx'.json.ok)
        => (/\ pc' = "guessPrompt"
            /\ Phase' = "InRound"
            /\ exitCause' = "running"
            /\ player_name' = player_name
            /\ socket' = socket
            /\ opened' = opened
            /\ socket \in opened
            /\ connected' = connected
            /\ connected
            /\ attempts' = attempts
            /\ tx' = NoLine)]_vars

C2_Witness ==
    /\ at = "recvReply" /\ rx.cause = "data" /\ rx.json.type = "error" /\ rx.json.ok
    /\ pc = "guessPrompt" /\ player_name = "alice"

\* C3: the text sent at the end of a reconnect is the first text on the new
\* transport and is the name of the most recent name_accepted frame; and
\* player_name is assigned by nothing but a name_accepted frame in the outer
\* loop (in particular not by connect or disconnect).
C3_ReconnectKeepsName ==
    /\ []((at = "sendName" /\ tx # NoLine) => (tx = lastAccepted /\ firstOut = tx))
    /\ [][player_name' # player_name
            => (pc = "recvTop" /\ rx'.cause = "data"
                /\ rx'.json.type = "name_accepted" /\ rx'.json.ok
                /\ player_name' = rx'.json.name)]_vars

C3_Witness ==
    at = "sendName" /\ tx = "alice" /\ firstOut = "alice" /\ attempts = 2

\* C4: when bye is the first frame received after game_start, the session
\* terminates having sent no guess.
C4_ByeAfterGameStartNoGuess ==
    (pc = "finally" /\ at = "recvReply" /\ rx.cause = "data"
        /\ rx.json.type = "bye" /\ rx.json.ok /\ rxInRound = 1)
    => guessesInRound = 0

C6_FailedReceiveTerminates ==
    (at = "recvReply" /\ rx.cause \in {"closed", "timeout", "ioerror"})
    => (pc = "finally" /\ events = <<Ev("ConnectionLost")>>)

\* C7: a frame whose type is none of the known kinds is handled as
\* connection loss, before a round as well as inside one.
C7_UnknownTypeIsConnectionLoss ==
    (at \in {"recvTop", "recvReply"} /\ rx.cause = "data" /\ rx.json.k = "dict"
        /\ rx.json.type = "other")
    => (pc = "finally" /\ exitCause = "normal")

\* C8: a bye frame, at whichever receive it arrives, renders the farewell of
\* the frame and ends the session.
C8_ByeTerminates ==
    (rx.cause = "data" /\ rx.json.type = "bye" /\ rx.json.ok)
    => (pc = "finally" /\ events = <<Ev("ByeFarewell")>>)

\* C9: after a SIGINT no receive, send or input prompt is performed.
C9_NoIoAfterInterrupt ==
    interrupted => ~ioAfterInt

\* C10: once run() has been left (position "finally", then "done") the
\* session stays there and neither sends, receives nor connects; when the
\* finally clause has run the socket is closed and connected is false; and
\* disconnect() on a socket that is None or already closed changes nothing.
C10_TerminatedIsTerminal ==
    /\ [](pc = "done" => (~connected /\ opened = {} /\ exitCause # "running"))
    /\ [][Phase = "Terminated"
            => (/\ Phase' = "Terminated"
                /\ tx' = NoLine
                /\ rx' = NoRx
                /\ attempts' = attempts
                /\ created' = created)]_vars
    /\ [][(pc = "finally" /\ socket \notin opened)
            => (/\ pc' = "done"
                /\ socket' = socket
                /\ opened' = opened
                /\ connected' = connected)]_vars

C10_Witness ==
    /\ pc = "done" /\ at = "finally" /\ exitCause = "normal"
    /\ created = 1 /\ attempts = 2 /\ socket = 1

\* C11: at every point of a round at most one guess is waiting for its
\* reply, also when the server pushes a stats frame during the round.
C11_OneOutstanding ==
    inflight <= 1

\* C12: a send that fails (name typed at the prompt, guess, or name replayed
\* after a reconnect) ends the session without a further receive or prompt.
C12_SendFailureTerminates ==
    (at \in {"sendTyped", "sendGuess", "sendName"} /\ tx = NoLine /\ events = <<>>)
    => pc = "finally"

\* C13 as stated: an error frame, in whichever phase it is received, does
\* not move the session to Terminated.
C13_ErrorNeverTerminates ==
    (rx.cause = "data" /\ rx.json.type = "error" /\ rx.json.ok)
    => Phase # "Terminated"

\* C13 amended: an error frame received as the reply to a guess, by the
\* courtesy fetch or by a reconnect drain does not end the session; an error
\* frame received by the outer message loop is rendered and ends it.
C13_ErrorFatalOnlyBeforeRound ==
    (rx.cause = "data" /\ rx.json.type = "error" /\ rx.json.ok)
    => IF at = "recvTop"
       THEN pc = "finally" /\ exitCause = "normal" /\ events = <<Ev("ErrorNotice")>>
       ELSE Phase # "Terminated" /\ exitCause = "running"

C13_Witness ==
    /\ at = "recvTop" /\ rx.cause = "data" /\ rx.json.type = "error" /\ rx.json.ok
    /\ pc = "finally" /\ player_name = "bob"

\* C14: the answers o, oui, y, yes lead to the reconnect, every other
\* answer to Terminated with no connect; the reconnect closes the socket
\* and then calls connect() exactly once; when that call fails the session
\* is Terminated, and from there nothing connects, sends or receives.
C14_RetryDecision ==
    /\ []((at = "askRetry" /\ exitCause \in {"running", "normal"})
            => IF line \in {"o", "oui", "y", "yes"}
               THEN pc = "disconnect" /\ exitCause = "running"
               ELSE pc = "finally" /\ exitCause = "normal")
    /\ [][pc = "askRetry"
            => (attempts' = attempts /\ created' = created /\ opened' = opened
                /\ tx' = NoLine /\ rx' = NoRx)]_vars
    /\ [][pc = "disconnect"
            => (opened' = {} /\ ~connected' /\ attempts' = attempts
                /\ created' = created /\ pc' \in {"reconnect", "finally"})]_vars
    /\ [][pc = "reconnect"
            => (attempts' = attempts + 1
                /\ ((pc' = "drain1" /\ connected')
                    \/ (pc' = "finally" /\ ~connected')))]_vars
    /\ [][(pc = "finally" \/ pc = "done")
            => (attempts' = attempts /\ created' = created
                /\ tx' = NoLine /\ rx' = NoRx /\ pc' = "done")]_vars

C14_Witness ==
    at = "reconnect" /\ pc = "finally" /\ exitCause = "normal" /\ attempts = 2

\* C15: on a connection obtained by a reconnect the two drained receives
\* only lead on to the send of the stored name, and the user is never asked
\* to type a name, whatever the server sends.
C15_NoNamePromptAfterReconnect ==
    /\ at \in {"drain1", "drain2"} => (pc \in {"drain2", "sendName"} /\ tx = NoLine)
    /\ (at = "sendName" /\ tx # NoLine) => tx = player_name
    /\ attempts > 1 => pc # "namePrompt"

\* C16: however run() is left (normal end, failed connect, connection lost,
\* exception while handling a frame, SystemExit), the next step closes the
\* socket and prints the farewell, which is the last thing the process does.
C16_CloseThenFarewell ==
    /\ [](pc = "done"
            => (at = "finally" /\ events = <<Ev("Farewell")>>
                /\ opened = {} /\ ~connected))
    /\ [](exitCause # "running" => (pc = "finally" \/ pc = "done"))
    /\ []((\E i \in 1..Len(events) : events[i].ev = "Farewell") => pc = "done")
    /\ [][pc = "finally" => (pc' = "done" /\ tx' = NoLine /\ rx' = NoRx)]_vars
    /\ [][pc # "done"]_vars

C16_Witness ==
    /\ pc = "done" /\ exitCause = "exception" /\ socket = 1
    /\ events = <<Ev("Farewell")>>

\* C17: in a round an input that is empty after trimming leads back to the
\* guess prompt with nothing sent or received; any other input is sent once
\* and followed by exactly one receive; no guess put on the wire is blank.
C17_EmptyGuessNeverSent ==
    /\ [](pc = "sendGuess" => line \notin {"", " ", NoLine})
    /\ []((at = "sendGuess" /\ tx # NoLine) => tx \notin {"", " "})
    /\ [][(pc = "guessPrompt" /\ exitCause' = "running")
            => (/\ tx' = NoLine
                /\ rx' = NoRx
                /\ guessesInRound' = guessesInRound
                /\ IF line' \in {"", " "}
                   THEN pc' = "guessPrompt"
                   ELSE pc' = "sendGuess")]_vars
    /\ [][pc = "sendGuess"
            => (pc' = "recvReply" /\ rx' = NoRx /\ tx' \in {line, NoLine})]_vars
    /\ [][pc = "recvReply"
            => (rx' # NoRx /\ tx' = NoLine /\ pc' # "recvReply"
                /\ pc' # "sendGuess")]_vars

C17_Witness ==
    /\ at = "guessPrompt" /\ pc = "guessPrompt" /\ line = ""
    /\ guessesInRound = 1 /\ exitCause = "running"

\* C18: before a round a well-formed stats or leaderboard frame changes
\* neither the position, player_name nor the socket and sends nothing; a
\* well-formed name_accepted frame sets player_name to its name and changes
\* nothing else; player_name is "" until the first name_accepted frame and
\* always the name of the latest one.
C18_PreRoundFanOut ==
    /\ [](player_name = lastAccepted)
    /\ [][(pc = "recvTop" /\ rx'.cause = "data" /\ rx'.json.ok
            /\ rx'.json.type \in {"stats", "leaderboard", "name_accepted"})
            => (/\ pc' = "recvTop"
                /\ exitCause' = "running"
                /\ socket' = socket
                /\ opened' = opened
                /\ connected' = connected
                /\ attempts' = attempts
                /\ tx' = NoLine
                /\ firstOut' = firstOut
                /\ IF rx'.json.type = "name_accepted"
                   THEN player_name' = rx'.json.name
                   ELSE player_name' = player_name)]_vars
    /\ [][player_name' # player_name
            => (rx'.cause = "data" /\ rx'.json.type = "name_accepted")]_vars

C18_Witness ==
    /\ at = "recvTop" /\ rx.cause = "data" /\ rx.json.type = "name_accepted"
    /\ rx.json.name = "bob" /\ player_name = "bob" /\ attempts = 2

\* C19: at most one socket is open at any time and it is self.socket; a
\* socket is created only when none is open and gets a handle never used
\* before; when the process has ended no socket is open, not even one made
\* by a connect() that failed.
C19_OneTransport ==
    /\ [](Cardinality(opened) <= 1)
    /\ [](opened \subseteq {socket})
    /\ [](connected => socket \in opened)
    /\ [](pc = "done" => opened = {})
    /\ [][created' # created
            => (/\ opened = {}
                /\ created' = created + 1
                /\ socket' = created'
                /\ socket' # socket
                /\ opened' = {socket'})]_vars

C19_Witness ==
    pc = "done" /\ created = 2 /\ socket = 2 /\ opened = {} /\ exitCause = "normal"

\* C20: if from some point on no receive yields data from the server and
\* the user no longer answers a guess prompt with an empty line, the
\* session eventually terminates (the finally clause has run).
C20_QuietServerTerminates ==
    (<>[](rx.cause # "data") /\ <>[]~(at = "guessPrompt" /\ pc = "guessPrompt"))
    => <>(pc = "done")

C20_Witness ==
    /\ at = "recvTop" /\ rx.cause = "timeout" /\ pc = "finally"
    /\ attempts = 2 /\ connected

====
